---- MODULE Spec2Model ----
(***************************************************************************)
(* CHPP application layer (chpp/app.c): the dispatcher that routes one     *)
(* received datagram to the handler of the endpoint it is addressed to.    *)
(*                                                                         *)
(* A call of chppProcessRxDatagram is one action.  What the call does      *)
(* (header reads, registry lookups, calls to the handlers and to the       *)
(* transport layer) is recorded, in order, in `steps`.  The bytes of a     *)
(* datagram that the dispatcher looks at are its handle and its type; they *)
(* are inputs of the action together with the length, so a byte that lies  *)
(* at or beyond `len` is simply whatever value the receive buffer holds    *)
(* there.                                                                  *)
(***************************************************************************)
EXTENDS Integers, Sequences, FiniteSets

(***************************************************************************)
(* Bounds of the model.                                                    *)
(***************************************************************************)
\* Capacity of the registry explored (registeredServices has a fixed size).
MaxServices == 2
\* Number of chppProcessRxDatagram calls explored in one behaviour.
MaxCalls == 2
\* Largest ordinary datagram length explored.
MaxLen == 4

(***************************************************************************)
(* Constants of the protocol (chpp/app.h, chpp/transport.h).               *)
(***************************************************************************)
CHPP_HANDLE_NONE == 0
CHPP_HANDLE_LOOPBACK == 1
CHPP_HANDLE_DISCOVERY == 15
CHPP_HANDLE_NEGOTIATED_RANGE_START == 16

CHPP_MESSAGE_TYPE_CLIENT_REQUEST == 0
CHPP_MESSAGE_TYPE_SERVICE_RESPONSE == 1
CHPP_MESSAGE_TYPE_CLIENT_NOTIFICATION == 2
CHPP_MESSAGE_TYPE_SERVICE_NOTIFICATION == 3

CHPP_TRANSPORT_ERROR_APPLAYER == "CHPP_TRANSPORT_ERROR_APPLAYER"

\* struct ChppAppHeader: handle, type and transaction, one byte each.
SizeofHandle == 1
SizeofType == 1
SizeofTransaction == 1
SizeofChppAppHeader == SizeofHandle + SizeofType + SizeofTransaction

\* Number of bytes of a service identifier.
CHPP_SERVICE_UUID_LEN == 16

\* The largest value of size_t (the smallest the C standard allows).
SIZE_MAX == 65535

NULL == "NULL"
\* A function pointer value that no code of the program set.
UnspecifiedPtr == "unspecified"
AppContext == "appContext"
TransportContext == "transportContext"

(***************************************************************************)
(* Inputs.                                                                 *)
(***************************************************************************)
\* The predefined handles, two handles of the predefined range that name
\* no endpoint (the first and the last), and the negotiated handles up to
\* one past the capacity of the registry.
Handles ==
  {CHPP_HANDLE_NONE, CHPP_HANDLE_LOOPBACK, CHPP_HANDLE_LOOPBACK + 1,
   CHPP_HANDLE_DISCOVERY - 1, CHPP_HANDLE_DISCOVERY}
  \cup (CHPP_HANDLE_NEGOTIATED_RANGE_START ..
        CHPP_HANDLE_NEGOTIATED_RANGE_START + MaxServices)

ValidTypes ==
  {CHPP_MESSAGE_TYPE_CLIENT_REQUEST, CHPP_MESSAGE_TYPE_SERVICE_RESPONSE,
   CHPP_MESSAGE_TYPE_CLIENT_NOTIFICATION,
   CHPP_MESSAGE_TYPE_SERVICE_NOTIFICATION}

\* The four message types and one value outside them.
Types == ValidTypes \cup {CHPP_MESSAGE_TYPE_SERVICE_NOTIFICATION + 1}

\* Datagram lengths: the short ones and the extreme of size_t.
Lens == (0 .. MaxLen) \cup {SIZE_MAX}

\* The services that may register: one with a request dispatcher only, one
\* with both dispatchers and a minimum above the header, one with a
\* notification dispatcher only and a minimum that covers the handle alone.
ServiceCatalogue ==
  { [minLength |-> SizeofChppAppHeader,
     requestDispatchFunctionPtr |-> "serviceA_request",
     notificationDispatchFunctionPtr |-> NULL],
    [minLength |-> SizeofChppAppHeader + 1,
     requestDispatchFunctionPtr |-> "serviceB_request",
     notificationDispatchFunctionPtr |-> "serviceB_notification"],
    [minLength |-> SizeofHandle,
     requestDispatchFunctionPtr |-> NULL,
     notificationDispatchFunctionPtr |-> "serviceC_notification"] }

\* The registries chppRegisterCommonServices may leave: up to MaxServices
\* services of the catalogue, each registered at most once, in any order.
Registries ==
  UNION { { r \in [1 .. n -> ServiceCatalogue] :
              \A i, j \in 1 .. n : r[i] = r[j] => i = j } :
          n \in 0 .. MaxServices }

\* The bytes tried at each position of an identifier: the ends of the byte
\* range, and values whose two hex digits are a digit and a letter in
\* either order.
ByteSamples == {0, 1, 10, 16, 159, 255}

ZeroUuid == [i \in 1 .. CHPP_SERVICE_UUID_LEN |-> 0]

\* 00 11 22 ... ff: every byte differs from every other one.
RampUuid == [i \in 1 .. CHPP_SERVICE_UUID_LEN |-> 17 * (i - 1)]

\* The identifiers given to chppUuidToStr: the zero identifier with one
\* byte set to a sample, the ramp, and the ramp backwards.
UuidInputs ==
  { [ZeroUuid EXCEPT ![p] = b] :
      p \in 1 .. CHPP_SERVICE_UUID_LEN, b \in ByteSamples }
  \cup {RampUuid,
        [i \in 1 .. CHPP_SERVICE_UUID_LEN |->
           RampUuid[CHPP_SERVICE_UUID_LEN + 1 - i]]}

(***************************************************************************)
(* State.                                                                  *)
(***************************************************************************)
VARIABLES
  initialized,             \* chppAppInit has run
  registeredServices,      \* ChppAppState.registeredServices, entries 1..count
  registeredServiceCount,  \* ChppAppState.registeredServiceCount
  transportContext,        \* ChppAppState.transportContext
  calls,                   \* chppProcessRxDatagram calls made so far
  doneCount,               \* chppAppProcessDoneCb calls made so far
  rx,                      \* the datagram of the latest call
  steps,                   \* what the latest call did, in order
  crashed,                 \* the process died in a memory fault
  uuids,                   \* the identifiers given to chppUuidToStr
  strOuts                  \* what chppUuidToStr wrote for each of them

vars == <<initialized, registeredServices, registeredServiceCount,
          transportContext, calls, doneCount, rx, steps, crashed,
          uuids, strOuts>>

appState == <<registeredServices, registeredServiceCount, transportContext>>

(***************************************************************************)
(* Calls to the collaborators, as they appear in `events`.                 *)
(***************************************************************************)
HandlerCall(fn, buf, len) ==
  [fn |-> fn, ctx |-> AppContext, buf |-> buf, len |-> len]

ErrorDatagram ==
  [fn |-> "chppEnqueueTxErrorDatagram", ctx |-> transportContext,
   code |-> CHPP_TRANSPORT_ERROR_APPLAYER]

ProcessDone(buf) ==
  [fn |-> "chppAppProcessDoneCb", ctx |-> transportContext, buf |-> buf]

TransportCalls == {"chppEnqueueTxErrorDatagram", "chppAppProcessDoneCb"}

(***************************************************************************)
(* Steps inside the dispatcher that the properties below observe: a read   *)
(* of a field of the header through rxHeader, and a registry lookup.       *)
(***************************************************************************)
HeaderRead(field) == [fn |-> "rxHeader", field |-> field]

ServiceLookup(handle) == [fn |-> "chppServiceOfHandle", handle |-> handle]

InternalSteps == {"rxHeader", "chppServiceOfHandle"}

IsCollaboratorCall(e) == e.fn \notin InternalSteps
IsProcessDone(e) == e.fn = "chppAppProcessDoneCb"
IsInternalStep(e) == e.fn \in InternalSteps

(***************************************************************************)
(* The predefined-handle routers.  Each yields the steps it makes.         *)
(***************************************************************************)
\* Mutant: the default branch falls into the loopback case.
chppProcessPredefinedClientRequest_DefaultToLoopback(handle, buf, len) ==
  <<HeaderRead("handle")>> \o
  CASE handle = CHPP_HANDLE_DISCOVERY ->
         <<HandlerCall("chppDispatchDiscoveryClientRequest", buf, len)>>
    [] OTHER ->
         <<HandlerCall("chppDispatchLoopbackClientRequest", buf, len)>>

chppProcessPredefinedClientRequest(handle, buf, len) ==
  <<HeaderRead("handle")>> \o
  CASE handle = CHPP_HANDLE_LOOPBACK ->
         <<HandlerCall("chppDispatchLoopbackClientRequest", buf, len)>>
    [] handle = CHPP_HANDLE_DISCOVERY ->
         <<HandlerCall("chppDispatchDiscoveryClientRequest", buf, len)>>
    [] OTHER -> <<>>

\* Mutant: the discovery response is left unhandled like the loopback one.
chppProcessPredefinedServiceResponse_DiscoveryUnhandled(handle, buf, len) ==
  <<HeaderRead("handle")>> \o
  CASE handle = CHPP_HANDLE_LOOPBACK -> <<>>
    [] handle = CHPP_HANDLE_DISCOVERY -> <<>>
    [] OTHER -> <<>>

chppProcessPredefinedServiceResponse(handle, buf, len) ==
  <<HeaderRead("handle")>> \o
  CASE handle = CHPP_HANDLE_LOOPBACK -> <<>>
    [] handle = CHPP_HANDLE_DISCOVERY ->
         <<HandlerCall("chppDispatchDiscoveryClient", buf, len)>>
    [] OTHER -> <<>>

\* Mutant: a notification is forwarded to the request handlers.
chppProcessPredefinedClientNotification_Forwarded(handle, buf, len) ==
  chppProcessPredefinedClientRequest(handle, buf, len)

chppProcessPredefinedClientNotification(handle, buf, len) ==
  <<HeaderRead("handle")>>

chppProcessPredefinedServiceNotification(handle, buf, len) ==
  <<HeaderRead("handle")>>

(***************************************************************************)
(* The registry lookup.  It indexes the registry without a check: the      *)
(* result is a registered descriptor only for a handle of the registered   *)
(* range.                                                                  *)
(***************************************************************************)
HandleIsRegistered(handle) ==
  /\ handle >= CHPP_HANDLE_NEGOTIATED_RANGE_START
  /\ handle - CHPP_HANDLE_NEGOTIATED_RANGE_START < registeredServiceCount

\* Mutant: the lookup ignores the handle and yields the first entry.
chppServiceOfHandle_FirstEntry(handle) ==
  registeredServices[1]

chppServiceOfHandle(handle) ==
  registeredServices[handle - CHPP_HANDLE_NEGOTIATED_RANGE_START + 1]

\* What reading ->minLength through an entry at or beyond the registered
\* count may give: the entry is a null pointer (the context was zeroed) or
\* lies outside the array, so the read faults or yields some value.
Fault == -1
UnregisteredMinLength == {Fault, 0, SIZE_MAX}

(***************************************************************************)
(* The length validator.  The set of its possible outcomes: the result     *)
(* ("ok", "short", or "fault" when the lookup of the descriptor faults)    *)
(* and the steps made.                                                     *)
(***************************************************************************)
\* Mutant: the loopback minimum covers the handle field only.
PredefinedMinLen_LoopbackHandleOnly(handle) ==
  CASE handle = CHPP_HANDLE_NONE -> SizeofHandle
    [] handle = CHPP_HANDLE_LOOPBACK -> SizeofHandle
    [] handle = CHPP_HANDLE_DISCOVERY -> SizeofChppAppHeader
    [] OTHER -> SIZE_MAX

PredefinedMinLen(handle) ==
  CASE handle = CHPP_HANDLE_NONE -> SizeofHandle
    [] handle = CHPP_HANDLE_LOOPBACK -> SizeofHandle + SizeofType
    [] handle = CHPP_HANDLE_DISCOVERY -> SizeofChppAppHeader
    [] OTHER -> SIZE_MAX

MinLenOfHandle(handle) ==
  IF handle < CHPP_HANDLE_NEGOTIATED_RANGE_START
    THEN {PredefinedMinLen(handle)}
    ELSE IF HandleIsRegistered(handle)
           THEN {chppServiceOfHandle(handle).minLength}
           ELSE UnregisteredMinLength

\* The lookup the validator makes: one for every handle of the negotiated
\* range, registered or not.
LenCheckLookups(handle) ==
  IF handle < CHPP_HANDLE_NEGOTIATED_RANGE_START
    THEN <<>>
    ELSE <<ServiceLookup(handle)>>

\* Mutant: a datagram of exactly the minimum length is rejected.
chppDatagramLenIsOk_StrictlyLonger(handle, len) ==
  { [ok |-> IF minLen = Fault THEN "fault"
            ELSE IF len > minLen THEN "ok" ELSE "short",
     made |-> LenCheckLookups(handle)] :
    minLen \in MinLenOfHandle(handle) }

chppDatagramLenIsOk(handle, len) ==
  { [ok |-> IF minLen = Fault THEN "fault"
            ELSE IF len >= minLen THEN "ok" ELSE "short",
     made |-> LenCheckLookups(handle)] :
    minLen \in MinLenOfHandle(handle) }

(***************************************************************************)
(* The dispatcher of a negotiated handle for a message type.  The set of   *)
(* its possible outcomes: the pointer returned and the steps made.  For a  *)
(* type outside the four variants the function enqueues the error datagram *)
(* and ends without a return statement, so the caller reads a value that   *)
(* nothing set: null or not.                                               *)
(***************************************************************************)
\* Mutant: a Service Notification is given the notification dispatcher.
chppGetDispatchFunction_ServiceNotificationDispatched(handle, type) ==
  CASE type = CHPP_MESSAGE_TYPE_CLIENT_REQUEST ->
         { [ret |-> chppServiceOfHandle(handle).requestDispatchFunctionPtr,
            made |-> <<ServiceLookup(handle)>>] }
    [] type = CHPP_MESSAGE_TYPE_SERVICE_RESPONSE ->
         { [ret |-> NULL, made |-> <<>>] }
    [] type \in {CHPP_MESSAGE_TYPE_CLIENT_NOTIFICATION,
                 CHPP_MESSAGE_TYPE_SERVICE_NOTIFICATION} ->
         { [ret |-> chppServiceOfHandle(handle).notificationDispatchFunctionPtr,
            made |-> <<ServiceLookup(handle)>>] }
    [] OTHER ->
         { [ret |-> p, made |-> <<ErrorDatagram>>] :
           p \in {NULL, UnspecifiedPtr} }

\* Mutant: a Client Notification is given the request dispatcher.
chppGetDispatchFunction_NotificationUsesRequest(handle, type) ==
  CASE type \in {CHPP_MESSAGE_TYPE_CLIENT_REQUEST,
                 CHPP_MESSAGE_TYPE_CLIENT_NOTIFICATION} ->
         { [ret |-> chppServiceOfHandle(handle).requestDispatchFunctionPtr,
            made |-> <<ServiceLookup(handle)>>] }
    [] type = CHPP_MESSAGE_TYPE_SERVICE_RESPONSE ->
         { [ret |-> NULL, made |-> <<>>] }
    [] type = CHPP_MESSAGE_TYPE_SERVICE_NOTIFICATION ->
         { [ret |-> NULL, made |-> <<>>] }
    [] OTHER ->
         { [ret |-> p, made |-> <<ErrorDatagram>>] :
           p \in {NULL, UnspecifiedPtr} }

\* Mutant: the Service Response case falls into the default case.
chppGetDispatchFunction_ResponseIsUnknown(handle, type) ==
  CASE type = CHPP_MESSAGE_TYPE_CLIENT_REQUEST ->
         { [ret |-> chppServiceOfHandle(handle).requestDispatchFunctionPtr,
            made |-> <<ServiceLookup(handle)>>] }
    [] type = CHPP_MESSAGE_TYPE_CLIENT_NOTIFICATION ->
         { [ret |-> chppServiceOfHandle(handle).notificationDispatchFunctionPtr,
            made |-> <<ServiceLookup(handle)>>] }
    [] type = CHPP_MESSAGE_TYPE_SERVICE_NOTIFICATION ->
         { [ret |-> NULL, made |-> <<>>] }
    [] OTHER ->
         { [ret |-> p, made |-> <<ErrorDatagram>>] :
           p \in {NULL, UnspecifiedPtr} }

chppGetDispatchFunction(handle, type) ==
  CASE type = CHPP_MESSAGE_TYPE_CLIENT_REQUEST ->
         { [ret |-> chppServiceOfHandle(handle).requestDispatchFunctionPtr,
            made |-> <<ServiceLookup(handle)>>] }
    [] type = CHPP_MESSAGE_TYPE_SERVICE_RESPONSE ->
         { [ret |-> NULL, made |-> <<>>] }
    [] type = CHPP_MESSAGE_TYPE_CLIENT_NOTIFICATION ->
         { [ret |-> chppServiceOfHandle(handle).notificationDispatchFunctionPtr,
            made |-> <<ServiceLookup(handle)>>] }
    [] type = CHPP_MESSAGE_TYPE_SERVICE_NOTIFICATION ->
         { [ret |-> NULL, made |-> <<>>] }
    [] OTHER ->
         { [ret |-> p, made |-> <<ErrorDatagram>>] :
           p \in {NULL, UnspecifiedPtr} }

(***************************************************************************)
(* chppProcessRxDatagram.  An outcome of a call is the steps it made and   *)
(* whether the process faulted before the call returned.                   *)
(***************************************************************************)
Outcome(made, fault) == [made |-> made, fault |-> fault]

\* The fields the two error logs of chppProcessRxDatagram read.  (A field
\* is recorded once for each function or branch that reads it.)
LogReads ==
  <<HeaderRead("handle"), HeaderRead("type"), HeaderRead("transaction")>>

\* Mutant: the default case logs but enqueues no error datagram.
PredefinedRouter_NoErrorDatagram(handle, type, buf, len) ==
  <<HeaderRead("type")>> \o
  CASE type = CHPP_MESSAGE_TYPE_CLIENT_REQUEST ->
         chppProcessPredefinedClientRequest(handle, buf, len)
    [] type = CHPP_MESSAGE_TYPE_CLIENT_NOTIFICATION ->
         chppProcessPredefinedClientNotification(handle, buf, len)
    [] type = CHPP_MESSAGE_TYPE_SERVICE_RESPONSE ->
         chppProcessPredefinedServiceResponse(handle, buf, len)
    [] type = CHPP_MESSAGE_TYPE_SERVICE_NOTIFICATION ->
         chppProcessPredefinedServiceNotification(handle, buf, len)
    [] OTHER -> LogReads

\* switch (rxHeader->type) of the predefined range.
PredefinedRouter(handle, type, buf, len) ==
  <<HeaderRead("type")>> \o
  CASE type = CHPP_MESSAGE_TYPE_CLIENT_REQUEST ->
         chppProcessPredefinedClientRequest(handle, buf, len)
    [] type = CHPP_MESSAGE_TYPE_CLIENT_NOTIFICATION ->
         chppProcessPredefinedClientNotification(handle, buf, len)
    [] type = CHPP_MESSAGE_TYPE_SERVICE_RESPONSE ->
         chppProcessPredefinedServiceResponse(handle, buf, len)
    [] type = CHPP_MESSAGE_TYPE_SERVICE_NOTIFICATION ->
         chppProcessPredefinedServiceNotification(handle, buf, len)
    [] OTHER -> Append(LogReads, ErrorDatagram)

\* The negotiated range: read the handle and the type, select the
\* dispatcher, call it unless it is null.
\* A call through a pointer nothing set either faults or returns.
NegotiatedRouter(handle, type, buf, len) ==
  LET args == <<HeaderRead("handle"), HeaderRead("type")>> IN
  UNION { IF d.ret = NULL
            THEN { Outcome(args \o d.made, FALSE) }
            ELSE IF d.ret = UnspecifiedPtr
              THEN { Outcome(Append(args \o d.made,
                                    HandlerCall(d.ret, buf, len)), f) :
                     f \in BOOLEAN }
              ELSE { Outcome(Append(args \o d.made,
                                    HandlerCall(d.ret, buf, len)), FALSE) } :
          d \in chppGetDispatchFunction(handle, type) }

\* Mutant: handle NONE is not singled out and goes through the type switch.
Dispatch_NoneThroughTypeSwitch(handle, type, buf, len) ==
  IF handle >= registeredServiceCount + CHPP_HANDLE_NEGOTIATED_RANGE_START
    THEN { Outcome(LogReads, FALSE) }
    ELSE IF handle < CHPP_HANDLE_NEGOTIATED_RANGE_START
      THEN { Outcome(<<HeaderRead("handle")>> \o
                     PredefinedRouter(handle, type, buf, len), FALSE) }
      ELSE { Outcome(<<HeaderRead("handle")>> \o o.made, o.fault) :
             o \in NegotiatedRouter(handle, type, buf, len) }

\* The branches taken once the length is found sufficient.  The tests of
\* the chain read the handle; the addressing error logs the handle, the
\* type and the transaction.
Dispatch(handle, type, buf, len) ==
  IF handle >= registeredServiceCount + CHPP_HANDLE_NEGOTIATED_RANGE_START
    THEN { Outcome(LogReads, FALSE) }
    ELSE IF handle = CHPP_HANDLE_NONE
      THEN { Outcome(<<HeaderRead("handle"),
                       HandlerCall("chppDispatchNonHandle", buf, len)>>,
                     FALSE) }
      ELSE IF handle < CHPP_HANDLE_NEGOTIATED_RANGE_START
        THEN { Outcome(<<HeaderRead("handle")>> \o
                       PredefinedRouter(handle, type, buf, len), FALSE) }
        ELSE { Outcome(<<HeaderRead("handle")>> \o o.made, o.fault) :
               o \in NegotiatedRouter(handle, type, buf, len) }

\* Mutant: the completion signal is sent before the dispatch.
ProcessRxDatagramOutcomes_DoneBeforeDispatch(handle, type, buf, len) ==
  UNION { IF r.ok = "fault"
            THEN { Outcome(<<HeaderRead("handle")>> \o r.made, TRUE) }
            ELSE IF r.ok = "short"
              THEN { Outcome(<<HeaderRead("handle")>> \o r.made \o
                             <<ProcessDone(buf)>>, FALSE) }
              ELSE { Outcome(<<HeaderRead("handle")>> \o r.made \o
                             <<ProcessDone(buf)>> \o o.made, o.fault) :
                     o \in Dispatch(handle, type, buf, len) } :
          r \in chppDatagramLenIsOk(handle, len) }

\* The whole call: the handle is read and passed to the length check, then
\* the dispatch, then the completion signal.  A fault ends the process
\* where it happens: nothing after it is made.
ProcessRxDatagramOutcomes(handle, type, buf, len) ==
  UNION { IF r.ok = "fault"
            THEN { Outcome(<<HeaderRead("handle")>> \o r.made, TRUE) }
            ELSE IF r.ok = "short"
              THEN { Outcome(<<HeaderRead("handle")>> \o r.made \o
                             <<ProcessDone(buf)>>, FALSE) }
              ELSE { IF o.fault
                       THEN Outcome(<<HeaderRead("handle")>> \o r.made \o
                                    o.made, TRUE)
                       ELSE Outcome(<<HeaderRead("handle")>> \o r.made \o
                                    o.made \o <<ProcessDone(buf)>>, FALSE) :
                     o \in Dispatch(handle, type, buf, len) } :
          r \in chppDatagramLenIsOk(handle, len) }

(***************************************************************************)
(* chppUuidToStr.  A string is the sequence of its characters; the         *)
(* terminating null is not part of it.                                     *)
(***************************************************************************)
\* The digits printf uses for the conversion x.
HexDigits ==
  <<"0", "1", "2", "3", "4", "5", "6", "7",
    "8", "9", "a", "b", "c", "d", "e", "f">>

\* The conversion %x of a value: its hex digits without leading zeros
\* (a single 0 for zero).
RECURSIVE FormatHex(_)
FormatHex(v) ==
  IF v < 16
    THEN <<HexDigits[v + 1]>>
    ELSE Append(FormatHex(v \div 16), HexDigits[(v % 16) + 1])

\* The conversion %02x: %x padded with zeros on the left to two characters.
FormatHex02(v) ==
  LET digits == FormatHex(v) IN
  IF Len(digits) < 2 THEN <<"0">> \o digits ELSE digits

\* The conversions of the bytes uuid[from - 1] .. uuid[to - 1], in order.
RECURSIVE FormatBytes(_, _, _)
FormatBytes(uuid, from, to) ==
  IF from > to
    THEN <<>>
    ELSE FormatHex02(uuid[from]) \o FormatBytes(uuid, from + 1, to)

\* Mutant: the first group is printed as one little-endian 32-bit number.
chppUuidToStr_FirstGroupReversed(uuid) ==
  FormatHex02(uuid[4]) \o FormatHex02(uuid[3]) \o
  FormatHex02(uuid[2]) \o FormatHex02(uuid[1]) \o <<"-">> \o
  FormatBytes(uuid, 5, 6) \o <<"-">> \o
  FormatBytes(uuid, 7, 8) \o <<"-">> \o
  FormatBytes(uuid, 9, 10) \o <<"-">> \o
  FormatBytes(uuid, 11, 16)

\* The format string: four bytes, a dash, three times two bytes and a
\* dash, six bytes.
chppUuidToStr(uuid) ==
  FormatBytes(uuid, 1, 4) \o <<"-">> \o
  FormatBytes(uuid, 5, 6) \o <<"-">> \o
  FormatBytes(uuid, 7, 8) \o <<"-">> \o
  FormatBytes(uuid, 9, 10) \o <<"-">> \o
  FormatBytes(uuid, 11, 16)

\* The content of a strOut that no call has written yet.
NotWritten == <<>>

(***************************************************************************)
(* Actions.                                                                *)
(***************************************************************************)
Init ==
  /\ initialized = FALSE
  /\ registeredServices = <<>>
  /\ registeredServiceCount = 0
  /\ transportContext = NULL
  /\ calls = 0
  /\ doneCount = 0
  /\ rx = [handle |-> 0, type |-> 0, len |-> 0, buf |-> 0]
  /\ steps = <<>>
  /\ crashed = FALSE
  /\ uuids = <<ZeroUuid, ZeroUuid>>
  /\ strOuts = <<NotWritten, NotWritten>>

\* chppAppInit: zero the context, bind the transport, register the services.
chppAppInit ==
  /\ ~initialized
  /\ initialized' = TRUE
  /\ transportContext' = TransportContext
  /\ \E r \in Registries :
       /\ registeredServices' = r
       /\ registeredServiceCount' = Len(r)
  /\ UNCHANGED <<calls, doneCount, rx, steps, crashed, uuids, strOuts>>

\* Mutant: the call zeroes the count of registered services.
chppProcessRxDatagram_ClearsCount ==
  /\ initialized
  /\ ~crashed
  /\ calls < MaxCalls
  /\ \E handle \in Handles, type \in Types, len \in Lens :
       LET buf == calls + 1 IN
       \E o \in ProcessRxDatagramOutcomes(handle, type, buf, len) :
         /\ rx' = [handle |-> handle, type |-> type, len |-> len, buf |-> buf]
         /\ steps' = o.made
         /\ crashed' = o.fault
         /\ doneCount' = doneCount + Len(SelectSeq(o.made, IsProcessDone))
  /\ calls' = calls + 1
  /\ registeredServiceCount' = 0
  /\ UNCHANGED <<initialized, registeredServices, transportContext,
                 uuids, strOuts>>

\* One call of chppProcessRxDatagram; the buffer is named by the call.
chppProcessRxDatagram ==
  /\ initialized
  /\ ~crashed
  /\ calls < MaxCalls
  /\ \E handle \in Handles, type \in Types, len \in Lens :
       LET buf == calls + 1 IN
       \E o \in ProcessRxDatagramOutcomes(handle, type, buf, len) :
         /\ rx' = [handle |-> handle, type |-> type, len |-> len, buf |-> buf]
         /\ steps' = o.made
         /\ crashed' = o.fault
         /\ doneCount' = doneCount + Len(SelectSeq(o.made, IsProcessDone))
  /\ calls' = calls + 1
  /\ UNCHANGED <<initialized, appState, uuids, strOuts>>

Next == chppAppInit \/ chppProcessRxDatagram

Spec == Init /\ [][Next]_vars

(***************************************************************************)
(* The formatter on its own: two identifiers are chosen, and each is       *)
(* formatted by one call.                                                  *)
(***************************************************************************)
InitUuid ==
  /\ initialized = FALSE
  /\ registeredServices = <<>>
  /\ registeredServiceCount = 0
  /\ transportContext = NULL
  /\ calls = 0
  /\ doneCount = 0
  /\ rx = [handle |-> 0, type |-> 0, len |-> 0, buf |-> 0]
  /\ steps = <<>>
  /\ crashed = FALSE
  /\ uuids \in UuidInputs \X UuidInputs
  /\ strOuts = <<NotWritten, NotWritten>>

\* One call of chppUuidToStr(uuids[i], strOuts[i]).
chppUuidToStrCall ==
  /\ \E i \in 1 .. 2 :
       /\ strOuts[i] = NotWritten
       /\ strOuts' = [strOuts EXCEPT ![i] = chppUuidToStr(uuids[i])]
  /\ UNCHANGED <<initialized, appState, calls, doneCount, rx, steps,
                 crashed, uuids>>

NextUuid == chppUuidToStrCall

SpecUuid == InitUuid /\ [][NextUuid]_vars

(***************************************************************************)
(* Observations of the latest call, used by the properties below.          *)
(***************************************************************************)
CallMade == calls > 0

\* The calls the latest call made to its collaborators, in order, and its
\* header reads and registry lookups, in order.
events == SelectSeq(steps, IsCollaboratorCall)
internal == SelectSeq(steps, IsInternalStep)

IsHandlerCall(e) == e.fn \notin TransportCalls
IsErrorDatagram(e) == e.fn = "chppEnqueueTxErrorDatagram"

HandlerCalls == SelectSeq(events, IsHandlerCall)
ErrorDatagrams == SelectSeq(events, IsErrorDatagram)
ProcessDones == SelectSeq(events, IsProcessDone)

\* The offset just past a field of struct ChppAppHeader.
FieldEnd(field) ==
  CASE field = "handle" -> SizeofHandle
    [] field = "type" -> SizeofHandle + SizeofType
    [] field = "transaction" -> SizeofChppAppHeader

\* The handle of the latest datagram lies in the registered negotiated range.
RxRegistered ==
  /\ rx.handle >= CHPP_HANDLE_NEGOTIATED_RANGE_START
  /\ rx.handle < CHPP_HANDLE_NEGOTIATED_RANGE_START + registeredServiceCount

\* The descriptor registered for the handle of the latest datagram.
RxService ==
  registeredServices[rx.handle - CHPP_HANDLE_NEGOTIATED_RANGE_START + 1]

\* The handle of the latest datagram is predefined but names no endpoint.
RxInvalidPredefined ==
  /\ rx.handle < CHPP_HANDLE_NEGOTIATED_RANGE_START
  /\ rx.handle \notin
       {CHPP_HANDLE_NONE, CHPP_HANDLE_LOOPBACK, CHPP_HANDLE_DISCOVERY}

\* The latest datagram is at least as long as the minimum of the endpoint
\* it names: 1 for NONE, handle and type for loopback, the whole header for
\* discovery, the descriptor's minLength for a registered negotiated
\* handle.  A handle that names no endpoint has no such minimum, except
\* that the validator lets the extreme length SIZE_MAX through for a
\* predefined one.
RxLongEnough ==
  CASE rx.handle = CHPP_HANDLE_NONE -> rx.len >= 1
    [] rx.handle = CHPP_HANDLE_LOOPBACK -> rx.len >= SizeofHandle + SizeofType
    [] rx.handle = CHPP_HANDLE_DISCOVERY -> rx.len >= SizeofChppAppHeader
    [] RxRegistered -> rx.len >= RxService.minLength
    [] OTHER -> FALSE

(***************************************************************************)
(* C1.  Every call of chppProcessRxDatagram calls chppAppProcessDoneCb     *)
(* exactly once, for the buffer of that call, whatever the handle, type,   *)
(* length and registry; over a sequence of calls there are as many         *)
(* completion signals as calls.                                            *)
(***************************************************************************)
C1_DoneExactlyOncePerCall ==
  /\ doneCount = calls
  /\ CallMade =>
       ProcessDones = <<[fn |-> "chppAppProcessDoneCb",
                         ctx |-> TransportContext, buf |-> rx.buf]>>

(***************************************************************************)
(* C2.  Within one call the completion signal is the final step: every     *)
(* handler invocation and every chppEnqueueTxErrorDatagram call of the     *)
(* call comes before chppAppProcessDoneCb, and nothing follows it.         *)
(***************************************************************************)
C2_DoneIsFinalStep ==
  \A i \in 1 .. Len(events) :
    IsProcessDone(events[i]) =>
      /\ i = Len(events)
      /\ events[i].buf = rx.buf
      /\ \A j \in 1 .. Len(events) :
           (IsHandlerCall(events[j]) \/ IsErrorDatagram(events[j])) => j < i

\* A call that invoked a handler or enqueued an error datagram and then
\* ended in the completion signal.
C2_Witness ==
  /\ CallMade
  /\ Len(events) >= 2
  /\ IsProcessDone(events[Len(events)])
  /\ Len(HandlerCalls) + Len(ErrorDatagrams) >= 1

(***************************************************************************)
(* C3.  No handler sees a short datagram: whenever a call invokes a        *)
(* handler for handle h with length len, h names an endpoint and len is at *)
(* least the minimum length of h, for every message type.                  *)
(***************************************************************************)
C3_NoHandlerSeesShortDatagram ==
  \A i \in 1 .. Len(events) :
    IsHandlerCall(events[i]) =>
      /\ events[i].len = rx.len
      /\ CASE rx.handle = CHPP_HANDLE_NONE -> events[i].len >= 1
           [] rx.handle = CHPP_HANDLE_LOOPBACK ->
                events[i].len >= SizeofHandle + SizeofType
           [] rx.handle = CHPP_HANDLE_DISCOVERY ->
                events[i].len >= SizeofChppAppHeader
           [] RxRegistered -> events[i].len >= RxService.minLength
           [] OTHER -> FALSE

\* A handler was invoked with exactly the minimum length of a negotiated
\* endpoint, for a type other than Client Request.
C3_Witness ==
  /\ CallMade
  /\ RxRegistered
  /\ rx.type # CHPP_MESSAGE_TYPE_CLIENT_REQUEST
  /\ Len(HandlerCalls) = 1
  /\ rx.len = RxService.minLength

(***************************************************************************)
(* C4.  A datagram for a handle at or beyond NEGOTIATED_RANGE_START +      *)
(* registeredServiceCount is dropped as an addressing error whatever its   *)
(* type and length: no handler, no error datagram, only the completion     *)
(* signal.                                                                 *)
(***************************************************************************)
C4_UnregisteredHandleDropped ==
  (/\ CallMade
   /\ rx.handle >= CHPP_HANDLE_NEGOTIATED_RANGE_START + registeredServiceCount)
  => events = <<[fn |-> "chppAppProcessDoneCb",
                 ctx |-> TransportContext, buf |-> rx.buf]>>

(***************************************************************************)
(* C5 (as claimed).  Every call whose message type is outside the four     *)
(* variants makes exactly one chppEnqueueTxErrorDatagram call.             *)
(***************************************************************************)
C5_UnknownTypeAlwaysEnqueues ==
  (CallMade /\ rx.type \notin ValidTypes) => Len(ErrorDatagrams) = 1

(***************************************************************************)
(* C5 (amended).  A call whose message type is outside the four variants   *)
(* makes exactly one chppEnqueueTxErrorDatagram call, with the transport   *)
(* context and the application-layer error code, when the datagram passes  *)
(* the length check and its handle is neither NONE nor at or beyond        *)
(* NEGOTIATED_RANGE_START + registeredServiceCount; otherwise it makes     *)
(* none.                                                                   *)
(***************************************************************************)
C5_UnknownTypeEnqueuesWhenRouted ==
  (CallMade /\ rx.type \notin ValidTypes) =>
    IF /\ rx.handle # CHPP_HANDLE_NONE
       /\ rx.handle < CHPP_HANDLE_NEGOTIATED_RANGE_START + registeredServiceCount
       /\ RxLongEnough \/ (RxInvalidPredefined /\ rx.len >= SIZE_MAX)
      THEN ErrorDatagrams =
             <<[fn |-> "chppEnqueueTxErrorDatagram",
                ctx |-> TransportContext,
                code |-> CHPP_TRANSPORT_ERROR_APPLAYER]>>
      ELSE ErrorDatagrams = <<>>

\* An unknown type for the loopback handle, long enough: one error datagram.
C5_Witness ==
  /\ CallMade
  /\ rx.type \notin ValidTypes
  /\ rx.handle = CHPP_HANDLE_LOOPBACK
  /\ Len(ErrorDatagrams) = 1
  /\ ~crashed

(***************************************************************************)
(* C6.  chppEnqueueTxErrorDatagram is used only for unrecognized message   *)
(* types: a call whose type is one of the four variants enqueues no error  *)
(* datagram, also when it ends in a length violation, an addressing error  *)
(* or an unsupported-type-for-endpoint drop.                               *)
(***************************************************************************)
C6_NoErrorDatagramForDefinedType ==
  (CallMade /\ rx.type \in ValidTypes) => ErrorDatagrams = <<>>

\* A Service Response for a registered negotiated handle, long enough:
\* dropped as unsupported for the endpoint.
C6_Witness ==
  /\ CallMade
  /\ RxRegistered
  /\ RxLongEnough
  /\ rx.type = CHPP_MESSAGE_TYPE_SERVICE_RESPONSE
  /\ Len(events) = 1
  /\ ~crashed

(***************************************************************************)
(* C7.  For a handle below NEGOTIATED_RANGE_START that is not NONE,        *)
(* loopback or discovery no handler is invoked, for every message type and *)
(* every length.                                                           *)
(***************************************************************************)
C7_InvalidPredefinedInvokesNothing ==
  (CallMade /\ RxInvalidPredefined) => HandlerCalls = <<>>

\* Such a handle with a Client Request of the one length the validator lets
\* through: the predefined router is reached and invokes nothing.
C7_Witness ==
  /\ CallMade
  /\ RxInvalidPredefined
  /\ rx.type = CHPP_MESSAGE_TYPE_CLIENT_REQUEST
  /\ rx.len = SIZE_MAX
  /\ Len(events) = 1

(***************************************************************************)
(* C8.  For the loopback handle and a Client Request the call invokes      *)
(* chppDispatchLoopbackClientRequest, with the context, the buffer and the *)
(* length of the call, if and only if len >= size of handle + size of      *)
(* type; below that no handler is invoked.                                 *)
(***************************************************************************)
C8_LoopbackRequestRouting ==
  (/\ CallMade
   /\ rx.handle = CHPP_HANDLE_LOOPBACK
   /\ rx.type = CHPP_MESSAGE_TYPE_CLIENT_REQUEST)
  => HandlerCalls =
       IF rx.len >= SizeofHandle + SizeofType
         THEN <<[fn |-> "chppDispatchLoopbackClientRequest",
                 ctx |-> AppContext, buf |-> rx.buf, len |-> rx.len]>>
         ELSE <<>>

\* A loopback Client Request of exactly handle + type bytes was dispatched.
C8_Witness ==
  /\ CallMade
  /\ rx.handle = CHPP_HANDLE_LOOPBACK
  /\ rx.type = CHPP_MESSAGE_TYPE_CLIENT_REQUEST
  /\ rx.len = SizeofHandle + SizeofType
  /\ Len(HandlerCalls) = 1

(***************************************************************************)
(* C9.  For the discovery handle a Client Request reaches                  *)
(* chppDispatchDiscoveryClientRequest and a Service Response reaches       *)
(* chppDispatchDiscoveryClient if and only if len >= sizeof(struct         *)
(* ChppAppHeader); a shorter discovery datagram reaches neither.           *)
(***************************************************************************)
C9_DiscoveryRouting ==
  (/\ CallMade
   /\ rx.handle = CHPP_HANDLE_DISCOVERY
   /\ rx.type \in {CHPP_MESSAGE_TYPE_CLIENT_REQUEST,
                   CHPP_MESSAGE_TYPE_SERVICE_RESPONSE})
  => HandlerCalls =
       IF rx.len >= SizeofChppAppHeader
         THEN <<[fn |-> IF rx.type = CHPP_MESSAGE_TYPE_CLIENT_REQUEST
                          THEN "chppDispatchDiscoveryClientRequest"
                          ELSE "chppDispatchDiscoveryClient",
                 ctx |-> AppContext, buf |-> rx.buf, len |-> rx.len]>>
         ELSE <<>>

\* A discovery Service Response of exactly the header size was dispatched.
C9_Witness ==
  /\ CallMade
  /\ rx.handle = CHPP_HANDLE_DISCOVERY
  /\ rx.type = CHPP_MESSAGE_TYPE_SERVICE_RESPONSE
  /\ rx.len = SizeofChppAppHeader
  /\ Len(HandlerCalls) = 1

(***************************************************************************)
(* C10.  For a registered negotiated handle h, a Client Request with       *)
(* len >= minLength of the descriptor at index h - NEGOTIATED_RANGE_START  *)
(* is passed to the request dispatcher of that descriptor, not of another, *)
(* with the context, the buffer and the length of the call; with len below *)
(* that minimum no dispatcher is invoked.  (A descriptor without a request *)
(* dispatcher has none to pass the datagram to.)                           *)
(***************************************************************************)
C10_NegotiatedRequestRouting ==
  (/\ CallMade
   /\ RxRegistered
   /\ rx.type = CHPP_MESSAGE_TYPE_CLIENT_REQUEST)
  => HandlerCalls =
       IF /\ rx.len >= RxService.minLength
          /\ RxService.requestDispatchFunctionPtr # NULL
         THEN <<[fn |-> RxService.requestDispatchFunctionPtr,
                 ctx |-> AppContext, buf |-> rx.buf, len |-> rx.len]>>
         ELSE <<>>

\* With two services registered, a Client Request for the second one was
\* passed to its request dispatcher.
C10_Witness ==
  /\ CallMade
  /\ registeredServiceCount >= 2
  /\ rx.handle = CHPP_HANDLE_NEGOTIATED_RANGE_START + 1
  /\ rx.type = CHPP_MESSAGE_TYPE_CLIENT_REQUEST
  /\ Len(HandlerCalls) = 1
  /\ HandlerCalls[1].fn # registeredServices[1].requestDispatchFunctionPtr

(***************************************************************************)
(* C11.  For a registered negotiated handle a Service Response or a        *)
(* Service Notification is dropped: no dispatcher is invoked and no error  *)
(* datagram is enqueued, whatever dispatchers the descriptor registered;   *)
(* the call makes the completion signal only.                              *)
(***************************************************************************)
C11_NegotiatedServiceMessagesDropped ==
  (/\ CallMade
   /\ RxRegistered
   /\ rx.type \in {CHPP_MESSAGE_TYPE_SERVICE_RESPONSE,
                   CHPP_MESSAGE_TYPE_SERVICE_NOTIFICATION})
  => events = <<[fn |-> "chppAppProcessDoneCb",
                 ctx |-> TransportContext, buf |-> rx.buf]>>

\* A Service Notification, long enough, for a descriptor that registered
\* both dispatchers.
C11_Witness ==
  /\ CallMade
  /\ RxRegistered
  /\ rx.type = CHPP_MESSAGE_TYPE_SERVICE_NOTIFICATION
  /\ rx.len >= RxService.minLength
  /\ RxService.requestDispatchFunctionPtr # NULL
  /\ RxService.notificationDispatchFunctionPtr # NULL
  /\ Len(events) = 1

(***************************************************************************)
(* C12.  For handle NONE with len >= 1 the call invokes                    *)
(* chppDispatchNonHandle exactly once and nothing else before the          *)
(* completion signal, whatever the message-type field holds (also a value  *)
(* outside the four variants) and whatever registeredServiceCount is; with *)
(* len = 0 it is not invoked.                                              *)
(***************************************************************************)
C12_NonHandleRouting ==
  (CallMade /\ rx.handle = CHPP_HANDLE_NONE)
  => events =
       IF rx.len >= 1
         THEN <<[fn |-> "chppDispatchNonHandle", ctx |-> AppContext,
                 buf |-> rx.buf, len |-> rx.len],
                [fn |-> "chppAppProcessDoneCb", ctx |-> TransportContext,
                 buf |-> rx.buf]>>
         ELSE <<[fn |-> "chppAppProcessDoneCb", ctx |-> TransportContext,
                 buf |-> rx.buf]>>

\* A one-byte NONE datagram whose type byte holds an unknown value, with
\* services registered: the non-handle dispatcher was called.
C12_Witness ==
  /\ CallMade
  /\ rx.handle = CHPP_HANDLE_NONE
  /\ rx.len = 1
  /\ rx.type \notin ValidTypes
  /\ registeredServiceCount >= 1
  /\ Len(HandlerCalls) = 1

(***************************************************************************)
(* C13.  Dispatch never mutates the application context: a call of         *)
(* chppProcessRxDatagram leaves the registry entries, the count of         *)
(* registered services and the bound transport context as they were.       *)
(***************************************************************************)
C13_DispatchLeavesContextUnchanged ==
  [][calls' # calls =>
       /\ registeredServices' = registeredServices
       /\ registeredServiceCount' = registeredServiceCount
       /\ transportContext' = transportContext]_vars

\* Two datagrams were processed, the second one dispatched to a handler,
\* with services registered and the transport bound.
C13_Witness ==
  /\ calls >= 2
  /\ registeredServiceCount >= 1
  /\ registeredServiceCount = Len(registeredServices)
  /\ transportContext = TransportContext
  /\ Len(HandlerCalls) = 1

(***************************************************************************)
(* C14.  chppUuidToStr writes, for a 16-byte identifier, the 36-character  *)
(* string made of the bytes in input order, each as two lowercase hex      *)
(* digits, with a dash after the 4th, 6th, 8th and 10th byte (8-4-4-4-12); *)
(* equal identifiers give equal strings and distinct identifiers distinct  *)
(* strings.                                                                *)
(***************************************************************************)
\* The value of a lowercase hex digit; -1 for any other character.
LowerHexValue(c) ==
  CASE c = "0" -> 0 [] c = "1" -> 1 [] c = "2" -> 2 [] c = "3" -> 3
    [] c = "4" -> 4 [] c = "5" -> 5 [] c = "6" -> 6 [] c = "7" -> 7
    [] c = "8" -> 8 [] c = "9" -> 9 [] c = "a" -> 10 [] c = "b" -> 11
    [] c = "c" -> 12 [] c = "d" -> 13 [] c = "e" -> 14 [] c = "f" -> 15
    [] OTHER -> -1

\* The bytes (counted from 1) a dash follows, and the place in the string
\* of the first digit of byte b: two characters for each byte before it
\* and one for each dash before it.
DashAfter == {4, 6, 8, 10}
DigitsAt(b) == 2 * (b - 1) + Cardinality({ d \in DashAfter : d < b }) + 1

\* str is the canonical string of uuid.
IsCanonicalString(uuid, str) ==
  /\ Len(str) = 2 * CHPP_SERVICE_UUID_LEN + Cardinality(DashAfter)
  /\ \A d \in DashAfter : str[DigitsAt(d) + 2] = "-"
  /\ \A b \in 1 .. CHPP_SERVICE_UUID_LEN :
       /\ LowerHexValue(str[DigitsAt(b)]) >= 0
       /\ LowerHexValue(str[DigitsAt(b) + 1]) >= 0
       /\ 16 * LowerHexValue(str[DigitsAt(b)])
            + LowerHexValue(str[DigitsAt(b) + 1]) = uuid[b]

C14_UuidStringCanonicalAndInjective ==
  /\ \A i \in 1 .. 2 :
       strOuts[i] # NotWritten => IsCanonicalString(uuids[i], strOuts[i])
  /\ (strOuts[1] # NotWritten /\ strOuts[2] # NotWritten) =>
       (uuids[1] = uuids[2] <=> strOuts[1] = strOuts[2])

\* Both identifiers are formatted; they differ in one byte only, whose
\* digits are a letter and a digit.
C14_Witness ==
  /\ strOuts[1] # NotWritten
  /\ strOuts[2] # NotWritten
  /\ uuids[1] = [ZeroUuid EXCEPT ![5] = 159]
  /\ uuids[2] = [ZeroUuid EXCEPT ![5] = 255]
  /\ Len(strOuts[1]) = 36
  /\ SubSeq(strOuts[1], 9, 14) = <<"-", "9", "f", "0", "0", "-">>
  /\ SubSeq(strOuts[2], 9, 14) = <<"-", "f", "f", "0", "0", "-">>

(***************************************************************************)
(* C15.  Every chppServiceOfHandle call made during a call of              *)
(* chppProcessRxDatagram, from the length validator or from the dispatcher *)
(* selection, is given a handle of the registered negotiated range, so the *)
(* registry is never indexed at or beyond registeredServiceCount.          *)
(***************************************************************************)
C15_LookupsWithinRegisteredRange ==
  CallMade =>
    \A i \in 1 .. Len(internal) :
      internal[i].fn = "chppServiceOfHandle" =>
        /\ internal[i].handle >= CHPP_HANDLE_NEGOTIATED_RANGE_START
        /\ internal[i].handle <
             CHPP_HANDLE_NEGOTIATED_RANGE_START + registeredServiceCount

(***************************************************************************)
(* C16.  For a registered negotiated handle and a datagram of sufficient   *)
(* length a Client Notification is passed to the notification dispatcher   *)
(* of that descriptor; when the dispatcher selected for the type (request  *)
(* or notification) is null nothing is invoked and the call makes the      *)
(* completion signal only.                                                 *)
(***************************************************************************)
C16_NotificationAndNullDispatcher ==
  (/\ CallMade
   /\ RxRegistered
   /\ rx.len >= RxService.minLength
   /\ rx.type \in {CHPP_MESSAGE_TYPE_CLIENT_REQUEST,
                   CHPP_MESSAGE_TYPE_CLIENT_NOTIFICATION})
  => LET selected ==
           IF rx.type = CHPP_MESSAGE_TYPE_CLIENT_NOTIFICATION
             THEN RxService.notificationDispatchFunctionPtr
             ELSE RxService.requestDispatchFunctionPtr
         done == [fn |-> "chppAppProcessDoneCb", ctx |-> TransportContext,
                  buf |-> rx.buf]
     IN  events =
           IF selected = NULL
             THEN <<done>>
             ELSE <<[fn |-> selected, ctx |-> AppContext,
                     buf |-> rx.buf, len |-> rx.len], done>>

\* A Client Notification was passed to the notification dispatcher of a
\* descriptor that also has a request dispatcher.
C16_Witness ==
  /\ CallMade
  /\ RxRegistered
  /\ rx.type = CHPP_MESSAGE_TYPE_CLIENT_NOTIFICATION
  /\ RxService.requestDispatchFunctionPtr # NULL
  /\ Len(HandlerCalls) = 1
  /\ HandlerCalls[1].fn = RxService.notificationDispatchFunctionPtr

(***************************************************************************)
(* C17.  For the loopback and discovery handles a Client Notification or   *)
(* a Service Notification reaches no handler, and a Service Response for   *)
(* loopback invokes no handler; in all three cases no error datagram is    *)
(* enqueued.                                                               *)
(***************************************************************************)
C17_PredefinedUnsupportedDropped ==
  (/\ CallMade
   /\ \/ /\ rx.handle \in {CHPP_HANDLE_LOOPBACK, CHPP_HANDLE_DISCOVERY}
         /\ rx.type \in {CHPP_MESSAGE_TYPE_CLIENT_NOTIFICATION,
                         CHPP_MESSAGE_TYPE_SERVICE_NOTIFICATION}
      \/ /\ rx.handle = CHPP_HANDLE_LOOPBACK
         /\ rx.type = CHPP_MESSAGE_TYPE_SERVICE_RESPONSE)
  => /\ HandlerCalls = <<>>
     /\ ErrorDatagrams = <<>>

\* A Client Notification for discovery with a whole header: the predefined
\* router was reached and the call made the completion signal only.
C17_Witness ==
  /\ CallMade
  /\ rx.handle = CHPP_HANDLE_DISCOVERY
  /\ rx.type = CHPP_MESSAGE_TYPE_CLIENT_NOTIFICATION
  /\ rx.len >= SizeofChppAppHeader
  /\ Len(events) = 1

(***************************************************************************)
(* C18.  For a registered negotiated handle and a datagram of sufficient   *)
(* length whose type is outside the four variants, chppGetDispatchFunction *)
(* yields a defined "no dispatcher" result: the call invokes no            *)
(* dispatcher, enqueues the error datagram and ends in the completion      *)
(* signal, and nothing is called through an unspecified pointer.           *)
(***************************************************************************)
C18_UnknownTypeYieldsNoDispatcher ==
  (/\ CallMade
   /\ RxRegistered
   /\ rx.len >= RxService.minLength
   /\ rx.type \notin ValidTypes)
  => /\ HandlerCalls = <<>>
     /\ ~crashed
     /\ Len(events) = 2
     /\ IsErrorDatagram(events[1])
     /\ IsProcessDone(events[2])

(***************************************************************************)
(* C19.  No call reads a field of the header that the datagram does not    *)
(* cover: the handle is read only when len >= 1, the type only when len    *)
(* covers the type field, the transaction only when len covers the whole   *)
(* header; on every branch, the length check and the error logs included.  *)
(***************************************************************************)
C19_HeaderReadsWithinLen ==
  CallMade =>
    \A i \in 1 .. Len(internal) :
      internal[i].fn = "rxHeader" => FieldEnd(internal[i].field) <= rx.len

(***************************************************************************)
(* C20.  Each call invokes at most one handler, at most once: one of       *)
(* chppDispatchNonHandle, chppDispatchLoopbackClientRequest,               *)
(* chppDispatchDiscoveryClientRequest, chppDispatchDiscoveryClient or a    *)
(* dispatcher of the descriptor addressed; and which one is a function of  *)
(* the handle, type and length of the call and of the registry alone.      *)
(***************************************************************************)
C20_DeterminedHandler ==
  LET call(fn) == <<[fn |-> fn, ctx |-> AppContext,
                     buf |-> rx.buf, len |-> rx.len]>>
      negotiated ==
        CASE rx.type = CHPP_MESSAGE_TYPE_CLIENT_REQUEST ->
               RxService.requestDispatchFunctionPtr
          [] rx.type = CHPP_MESSAGE_TYPE_CLIENT_NOTIFICATION ->
               RxService.notificationDispatchFunctionPtr
          [] OTHER -> NULL
  IN
  CallMade =>
    HandlerCalls =
      CASE ~RxLongEnough -> <<>>
        [] rx.handle = CHPP_HANDLE_NONE -> call("chppDispatchNonHandle")
        [] /\ rx.handle = CHPP_HANDLE_LOOPBACK
           /\ rx.type = CHPP_MESSAGE_TYPE_CLIENT_REQUEST ->
             call("chppDispatchLoopbackClientRequest")
        [] /\ rx.handle = CHPP_HANDLE_DISCOVERY
           /\ rx.type = CHPP_MESSAGE_TYPE_CLIENT_REQUEST ->
             call("chppDispatchDiscoveryClientRequest")
        [] /\ rx.handle = CHPP_HANDLE_DISCOVERY
           /\ rx.type = CHPP_MESSAGE_TYPE_SERVICE_RESPONSE ->
             call("chppDispatchDiscoveryClient")
        [] RxRegistered /\ negotiated # NULL -> call(negotiated)
        [] OTHER -> <<>>

====
